---- MODULE Spec2Model ----
(***************************************************************************)
(* Model of src/chromium/crConnection.ts: CRConnection multiplexes the     *)
(* protocol traffic of many CRSession objects over one transport.          *)
(*                                                                         *)
(* Session objects are numbered in creation order (object 1 is the root    *)
(* session built by the CRConnection constructor).  Request ids index the  *)
(* sequences `sent` (what went to the transport) and `calls` (the promise  *)
(* each send returned).  Deferred work (Promise.resolve().then(...) and    *)
(* promise reactions) sits in the FIFO `microtasks`.                       *)
(***************************************************************************)
EXTENDS Integers, Sequences, FiniteSets, TLC

\* ---------------------------------------------------------------- bounds
MaxId == 2           \* ids the model lets _rawSend allocate
MaxSessions == 2     \* CRSession objects the model lets exist (root included)
MaxDeferred == 2     \* pending deferred callbacks of one kind a caller can pile up
MaxCloseCalls == 2   \* transport.close() requests the model counts

\* ------------------------------------------------------ program constants
kBrowserCloseMessageId == -9999

SessionIds == {"", "A", "B"}
NoSessionId == "<undefined>"      \* an envelope without a sessionId field
NoMethod == "<undefined>"         \* an envelope without a method field
AttachedToTarget == "Target.attachedToTarget"
DetachedFromTarget == "Target.detachedFromTarget"
AttachToTarget == "Target.attachToTarget"
DetachFromTarget == "Target.detachFromTarget"
FooBar == "Foo.bar"               \* any ordinary command
FooBaz == "Foo.baz"               \* any ordinary event

TargetCrashed == "Target crashed"
SessionClosed == "Session closed"
TargetClosed == "Target closed"
ProtocolError == "Protocol error"
AlreadyDetached == "Session already detached"
RootSessionClosed == "Root session has been closed"

VARIABLES
  lastId,          \* CRConnection._lastId
  sent,            \* requests handed to transport.send, in order
  sessions,        \* CRConnection._sessions: <<session id, object>> entries
  objs,            \* every CRSession constructed so far
  closed,          \* CRConnection._closed
  hooked,          \* transport.onmessage / transport.onclose are still set
  closeRequests,   \* calls of transport.close()
  calls,           \* the promise each successful send() returned, in call order
  microtasks,      \* deferred callbacks, oldest first
  emitted,         \* Disconnected emissions: per session object, and [0] the connection
  cs,              \* the createSession() invocation in flight
  last             \* what the latest step did

vars == <<lastId, sent, sessions, objs, closed, hooked, closeRequests, calls,
          microtasks, emitted, cs, last>>

rootSession == 1

\* `message.sessionId || ''`
OrEmpty(s) == IF s = NoSessionId THEN "" ELSE s

\* ------------------------------------------------------------- envelopes
LifecycleMethods == {AttachedToTarget, DetachedFromTarget}
FrameIds == {0, kBrowserCloseMessageId} \cup (1..MaxId)

NoFrame == [hasId |-> FALSE, id |-> 0, sessionId |-> NoSessionId, method |-> NoMethod,
            target |-> "", error |-> FALSE, result |-> NoSessionId]

\* ProtocolResponse values the peer may deliver.  `target` is params.sessionId
\* of a lifecycle notification, `result` is result.sessionId of a reply.
FrameSessionIds == (SessionIds \ {""}) \cup {NoSessionId}

Events ==
  { [NoFrame EXCEPT !.sessionId = s, !.method = m, !.target = t] :
      s \in FrameSessionIds,
      m \in LifecycleMethods \cup {FooBaz},
      t \in SessionIds }

Replies ==
  { [NoFrame EXCEPT !.hasId = TRUE, !.id = i, !.sessionId = s, !.error = e, !.result = r] :
      i \in FrameIds \ {kBrowserCloseMessageId},
      s \in FrameSessionIds,
      e \in BOOLEAN,
      r \in FrameSessionIds }

BrowserCloseFrames ==
  { [NoFrame EXCEPT !.hasId = TRUE, !.id = kBrowserCloseMessageId, !.sessionId = s,
                    !.method = m, !.target = t] :
      s \in FrameSessionIds,
      m \in LifecycleMethods \cup {NoMethod},
      t \in SessionIds }

Normal(f) ==
  /\ (f.method \notin LifecycleMethods => f.target = "")
  /\ (f.error => f.result = NoSessionId)

Frames == { f \in Events \cup Replies \cup BrowserCloseFrames : Normal(f) }

\* the frames about the root session and one other session id
Uses(f, ids) ==
  /\ OrEmpty(f.sessionId) \in ids
  /\ f.target \in ids
  /\ f.result \in ids \cup {NoSessionId}

FramesA == { f \in Frames : Uses(f, {"", "A"}) }

\* ... where every attach notification comes on the root session, and no reply
\* names a session
FramesFlat ==
  { f \in FramesA : /\ (f.method = AttachedToTarget => f.sessionId = NoSessionId)
                    /\ f.result = NoSessionId }

\* this._sessions is a sequence of <<session id, object>> entries in insertion
\* order, at most one per session id.
\* `this._sessions.get(sessionId) || null`, 0 standing for null
Lookup(reg, s) ==
  IF \E n \in DOMAIN reg : reg[n][1] = s
  THEN reg[CHOOSE n \in DOMAIN reg : reg[n][1] = s][2]
  ELSE 0

\* `this._sessions.set(sessionId, session)`: a key already there keeps its place
Register(reg, s, o) ==
  IF \E n \in DOMAIN reg : reg[n][1] = s
  THEN [n \in DOMAIN reg |-> IF reg[n][1] = s THEN <<s, o>> ELSE reg[n]]
  ELSE Append(reg, <<s, o>>)

\* `this._sessions.delete(sessionId)`
Unregister(reg, s) == SelectSeq(reg, LAMBDA e : e[1] # s)

\* the objects of `this._sessions.values()`, in iteration order
Registered(reg) == [n \in DOMAIN reg |-> reg[n][2]]

\* `object.id && ...`: the id is present and not 0
TruthyId(f) == f.hasId /\ f.id # 0

IsBrowserClose_Never(f) == FALSE
\* `message.id === kBrowserCloseMessageId`
IsBrowserClose(f) == f.hasId /\ f.id = kBrowserCloseMessageId

\* what `last` keeps of a frame: whether it carried an id (1 standing for any
\* positive one), its method, the target of a lifecycle notification that
\* was not the browser-close acknowledgment, and the outer sessionId of a
\* detach notification; the session it was forwarded to and the call it
\* settled are kept beside it, and so are the id and the error field of a
\* reply that settled a call
Seen(f) ==
  [NoFrame EXCEPT !.hasId = f.hasId,
                  !.id = IF f.id > 0 THEN 1 ELSE f.id,
                  !.method = f.method,
                  !.target = IF f.hasId /\ f.id = kBrowserCloseMessageId THEN "" ELSE f.target,
                  !.sessionId = IF ~f.hasId /\ f.method = DetachedFromTarget
                                  THEN f.sessionId ELSE NoSessionId]

RawSendId_PerSession(w, sessionId) ==
  Cardinality({k \in DOMAIN w.sent : OrEmpty(w.sent[k].sessionId) = sessionId}) + 1
\* `const id = ++this._lastId` in _rawSend(sessionId, ...)
RawSendId(w, sessionId) == w.lastId + 1

\* the envelope _rawSend builds
Request(id, sessionId, method, target) ==
  [id |-> id, method |-> method, target |-> target,
   sessionId |-> IF sessionId = "" THEN NoSessionId ELSE sessionId]

NewSession(rootSessionId, sessionId) ==
  [sessionId |-> sessionId, rootSessionId |-> rootSessionId, connection |-> TRUE,
   crashed |-> FALSE, callbacks |-> {}]

\* the promise send() returns, with the id its callbacks are stored under
NewCall(o, id, waiter) ==
  [owner |-> o, id |-> id, state |-> "pending", settles |-> 0, error |-> "",
   waiter |-> waiter, logged |-> FALSE]

\* this._callbacks is a set of <<id, call>> pairs, at most one per id
Has(cbs, id) == \E p \in cbs : p[1] = id
Get(cbs, id) == (CHOOSE p \in cbs : p[1] = id)[2]
Delete(cbs, id) == {p \in cbs : p[1] # id}
Set(cbs, id, k) == Delete(cbs, id) \cup {<<id, k>>}
Values(cbs) == {p[2] : p \in cbs}

Microtask(kind, o, id, method, sid) ==
  [kind |-> kind, obj |-> o, id |-> id, method |-> method, sid |-> sid]

Range(q) == {q[n] : n \in DOMAIN q}

RECURSIVE Ascending(_)
\* the calls of a set in the order they were made (a Map iterates in insertion order)
Ascending(S) ==
  IF S = {} THEN <<>>
  ELSE LET m == CHOOSE x \in S : \A y \in S : x <= y
       IN <<m>> \o Ascending(S \ {m})

\* The state the handlers read and write, as one value.
World ==
  [lastId |-> lastId, sent |-> sent, sessions |-> sessions, objs |-> objs,
   calls |-> calls, microtasks |-> microtasks, outcome |-> "", id |-> 0]

\* ------------------------------------------------------ promise plumbing
Reaction_NoCatch(c, k, how, r) ==
  IF c.state # "pending" \/ c.waiter # "createSession" THEN <<>>
  ELSE << Microtask(IF how = "resolved" THEN "createSessionResume" ELSE "createSessionThrow",
                    c.owner, k, NoMethod, r) >>
\* what runs when the promise of call k settles: the continuation of an await
\* or of a .catch
Reaction(c, k, how, r) ==
  IF c.state # "pending" THEN <<>>
  ELSE IF c.waiter = "mayFail" /\ how = "rejected"
    THEN << Microtask("catch", c.owner, k, NoMethod, NoSessionId) >>
  ELSE IF c.waiter = "createSession" /\ how = "resolved"
    THEN << Microtask("createSessionResume", c.owner, k, NoMethod, r) >>
  ELSE IF c.waiter = "createSession" /\ how = "rejected"
    THEN << Microtask("createSessionThrow", c.owner, k, NoMethod, NoSessionId) >>
  ELSE <<>>

\* callback.resolve(...) / callback.reject(...): a promise keeps its first outcome
Settle(c, how, err) ==
  [c EXCEPT !.settles = @ + 1,
            !.state = IF @ = "pending" THEN how ELSE @,
            !.error = IF c.state = "pending" THEN err ELSE @]

\* one callback.resolve / callback.reject call on call k, with its reaction
SettleCall(w, k, how, err, r) ==
  [w EXCEPT !.calls[k] = Settle(@, how, err),
            !.microtasks = @ \o Reaction(w.calls[k], k, how, r)]

RECURSIVE RejectEach(_, _)
\* CRSession._onClosed, the loop over this._callbacks.values()
RejectEach(w, ks) ==
  IF ks = <<>> THEN w
  ELSE RejectEach(SettleCall(w, Head(ks), "rejected", TargetClosed, NoSessionId), Tail(ks))

\* --------------------------------------------------------------- CRSession
SessionOnClosed_NoClear(w, o) ==
  LET w1 == RejectEach(w, Ascending(Values(w.objs[o].callbacks)))
  IN [w1 EXCEPT !.objs[o].connection = FALSE,
                !.microtasks = @ \o << Microtask("SessionDisconnected", o, 0, NoMethod, NoSessionId) >>]
\* CRSession._onClosed
SessionOnClosed(w, o) ==
  LET w1 == RejectEach(w, Ascending(Values(w.objs[o].callbacks)))
  IN [w1 EXCEPT !.objs[o].callbacks = {},
                !.objs[o].connection = FALSE,
                !.microtasks = @ \o << Microtask("SessionDisconnected", o, 0, NoMethod, NoSessionId) >>]

SendError_NoCrashedCheck(s) ==
  IF ~s.connection THEN SessionClosed ELSE "ok"
SendError_NoClosedCheck(s) ==
  IF s.crashed THEN TargetCrashed ELSE "ok"
\* the checks at the head of CRSession.send
SendError(s) ==
  IF s.crashed THEN TargetCrashed
  ELSE IF ~s.connection THEN SessionClosed
  ELSE "ok"

\* CRConnection._rawSend followed by this._callbacks.set(id, ...)
SendOk(w, o, method, target, waiter) ==
  LET id == RawSendId(w, w.objs[o].sessionId)
      k == Len(w.calls) + 1
  IN [w EXCEPT !.lastId = id,
               !.sent = Append(@, Request(id, w.objs[o].sessionId, method, target)),
               !.calls = Append(@, NewCall(o, id, waiter)),
               !.objs[o].callbacks = Set(@, id, k),
               !.outcome = "ok",
               !.id = id]

\* a send() that throws: its promise is rejected and the awaiting code runs later
SendThrows(w, o, waiter, err) ==
  [w EXCEPT !.outcome = err,
            !.microtasks = @ \o
               (IF waiter = "mayFail"
                  THEN << Microtask("catch", o, 0, NoMethod, NoSessionId) >>
                ELSE IF waiter = "createSession"
                  THEN << Microtask("createSessionThrow", o, 0, NoMethod, NoSessionId) >>
                ELSE <<>>)]

\* CRSession.send
SessionSend(w, o, method, target, waiter) ==
  IF SendError(w.objs[o]) # "ok"
  THEN SendThrows(w, o, waiter, SendError(w.objs[o]))
  ELSE SendOk(w, o, method, target, waiter)

SessionOnMessage_NoAssert(w, o, f) ==
  LET cbs == w.objs[o].callbacks
  IN IF TruthyId(f) /\ Has(cbs, f.id)
     THEN LET k == Get(cbs, f.id)
              w1 == [w EXCEPT !.objs[o].callbacks = Delete(@, f.id)]
              w2 == IF f.error
                      THEN SettleCall(w1, k, "rejected", ProtocolError, NoSessionId)
                      ELSE SettleCall(w1, k, "resolved", "", f.result)
          IN [w2 EXCEPT !.outcome = "settled", !.id = k]
     ELSE [w EXCEPT !.outcome = "event",
                    !.microtasks = @ \o << Microtask("event", o, 0, f.method, NoSessionId) >>]
SessionOnMessage_OldestFirst(w, o, f) ==
  LET cbs == w.objs[o].callbacks
  IN IF TruthyId(f) /\ Has(cbs, f.id)
     THEN LET k == CHOOSE x \in Values(cbs) : \A y \in Values(cbs) : x <= y
              w1 == [w EXCEPT !.objs[o].callbacks = {p \in @ : p[2] # k}]
              w2 == IF f.error
                      THEN SettleCall(w1, k, "rejected", ProtocolError, NoSessionId)
                      ELSE SettleCall(w1, k, "resolved", "", f.result)
          IN [w2 EXCEPT !.outcome = "settled", !.id = k]
     ELSE SessionOnMessage_NoAssert(w, o, f)
SessionOnMessage_EmitsTwice(w, o, f) ==
  LET w1 == SessionOnMessage_NoAssert(w, o, f)
  IN IF w1.outcome = "event"
     THEN [w1 EXCEPT !.microtasks = @ \o << Microtask("event", o, 0, f.method, NoSessionId) >>]
     ELSE w1
\* CRSession._onMessage
SessionOnMessage(w, o, f) ==
  LET cbs == w.objs[o].callbacks
  IN IF TruthyId(f) /\ Has(cbs, f.id)
     THEN LET k == Get(cbs, f.id)
              w1 == [w EXCEPT !.objs[o].callbacks = Delete(@, f.id)]
              w2 == IF f.error
                      THEN SettleCall(w1, k, "rejected", ProtocolError, NoSessionId)
                      ELSE SettleCall(w1, k, "resolved", "", f.result)
          IN [w2 EXCEPT !.outcome = "settled", !.id = k]
     ELSE IF TruthyId(f)
       THEN [w EXCEPT !.outcome = "asserted"]
       ELSE [w EXCEPT !.outcome = "event",
                      !.microtasks = @ \o << Microtask("event", o, 0, f.method, NoSessionId) >>]

SessionDetach_ClosesNow(w, o) ==
  IF ~w.objs[o].connection THEN [w EXCEPT !.outcome = AlreadyDetached]
  ELSE LET root == Lookup(w.sessions, w.objs[o].rootSessionId)
       IN IF root = 0 THEN [w EXCEPT !.outcome = RootSessionClosed]
          ELSE LET w1 == SessionSend(w, root, DetachFromTarget, w.objs[o].sessionId, "detach")
               IN IF w1.outcome # "ok" THEN w1
                  ELSE [SessionOnClosed(w1, o) EXCEPT
                          !.sessions = Unregister(@, w.objs[o].sessionId),
                          !.outcome = "ok", !.id = w1.id]
SessionDetach_NoRootCheck(w, o) ==
  IF ~w.objs[o].connection THEN [w EXCEPT !.outcome = AlreadyDetached]
  ELSE LET root == Lookup(w.sessions, w.objs[o].rootSessionId)
       IN SessionSend(w, IF root = 0 THEN o ELSE root, DetachFromTarget,
                      w.objs[o].sessionId, "detach")
\* CRSession.detach
SessionDetach(w, o) ==
  IF ~w.objs[o].connection THEN [w EXCEPT !.outcome = AlreadyDetached]
  ELSE LET root == Lookup(w.sessions, w.objs[o].rootSessionId)
       IN IF root = 0 THEN [w EXCEPT !.outcome = RootSessionClosed]
          ELSE SessionSend(w, root, DetachFromTarget, w.objs[o].sessionId, "detach")

\* ------------------------------------------------------------ CRConnection
OnAttached_Reuses(w, f) ==
  LET old == {o \in DOMAIN w.objs : w.objs[o].sessionId = f.target /\ ~w.objs[o].connection}
  IN IF old = {}
     THEN [w EXCEPT !.objs = Append(@, NewSession(OrEmpty(f.sessionId), f.target)),
                    !.sessions = Register(@, f.target, Len(w.objs) + 1)]
     ELSE LET o == CHOOSE x \in old : TRUE
          IN [w EXCEPT !.objs[o].connection = TRUE,
                       !.sessions = Register(@, f.target, o)]
\* the Target.attachedToTarget branch of _onMessage
OnAttached(w, f) ==
  LET o == Len(w.objs) + 1
  IN [w EXCEPT !.objs = Append(@, NewSession(OrEmpty(f.sessionId), f.target)),
               !.sessions = Register(@, f.target, o)]

OnDetached_NoDelete(w, f) ==
  LET o == Lookup(w.sessions, f.target)
  IN IF o # 0 THEN SessionOnClosed(w, o) ELSE w
\* the Target.detachedFromTarget branch of _onMessage
OnDetached(w, f) ==
  LET o == Lookup(w.sessions, f.target)
  IN IF o # 0
     THEN [SessionOnClosed(w, o) EXCEPT !.sessions = Unregister(@, f.target)]
     ELSE w

ConnectionOnMessage_DetachConsumed(w, f) ==
  IF IsBrowserClose(f) THEN [w EXCEPT !.outcome = "discarded"]
  ELSE IF f.method = DetachedFromTarget THEN [OnDetached(w, f) EXCEPT !.outcome = "dropped"]
  ELSE LET w1 == IF f.method = AttachedToTarget THEN OnAttached(w, f) ELSE w
           o == Lookup(w1.sessions, OrEmpty(f.sessionId))
       IN IF o # 0 THEN SessionOnMessage(w1, o, f)
          ELSE [w1 EXCEPT !.outcome = "dropped"]
\* CRConnection._onMessage
ConnectionOnMessage(w, f) ==
  IF IsBrowserClose(f) THEN [w EXCEPT !.outcome = "discarded"]
  ELSE LET w1 == IF f.method = AttachedToTarget THEN OnAttached(w, f)
                 ELSE IF f.method = DetachedFromTarget THEN OnDetached(w, f)
                 ELSE w
           o == Lookup(w1.sessions, OrEmpty(f.sessionId))
       IN IF o # 0 THEN SessionOnMessage(w1, o, f)
          ELSE [w1 EXCEPT !.outcome = "dropped"]

RECURSIVE CloseEach(_, _)
\* `for (const session of this._sessions.values()) session._onClosed()`
CloseEach(w, os) ==
  IF os = <<>> THEN w
  ELSE CloseEach(SessionOnClosed(w, Head(os)), Tail(os))

ConnectionOnClose_KeepsRegistry(w) ==
  [CloseEach(w, Registered(w.sessions)) EXCEPT
     !.microtasks = @ \o << Microtask("ConnectionDisconnected", 0, 0, NoMethod, NoSessionId) >>,
     !.outcome = "closed"]
\* CRConnection._onClose, the part that touches the sessions
ConnectionOnClose(w) ==
  [CloseEach(w, Registered(w.sessions)) EXCEPT
     !.sessions = <<>>,
     !.microtasks = @ \o << Microtask("ConnectionDisconnected", 0, 0, NoMethod, NoSessionId) >>,
     !.outcome = "closed"]

CloseRequests_Unguarded(isClosed, n) == n + 1
\* CRConnection.close: transport.close() is called unless _closed
CloseRequests(isClosed, n) == IF ~isClosed THEN n + 1 ELSE n

\* ------------------------------------------------------------ the machine
Last(op, o, f, outcome, id, method) ==
  [op |-> op, obj |-> o, frame |-> f, outcome |-> outcome, id |-> id, method |-> method]

NoCreateSession == [state |-> "idle", call |-> 0, sid |-> NoSessionId, attached |-> {}, result |-> 0]

\* the state after `new CRConnection(transport, logger)`
Init ==
  /\ lastId = 0
  /\ sent = <<>>
  /\ objs = << NewSession("", "") >>
  /\ sessions = << <<"", rootSession>> >>
  /\ closed = FALSE
  /\ hooked = TRUE
  /\ closeRequests = 0
  /\ calls = <<>>
  /\ microtasks = <<>>
  /\ emitted = [o \in 0..MaxSessions |-> 0]
  /\ cs = NoCreateSession
  /\ last = Last("new", 0, NoFrame, "", 0, NoMethod)

Objects == 1..Len(objs)

\* the deferred callbacks of a queue that emit an event, and those that handle
\* a send that threw under _sendMayFail
DeferredEvents(mt) == {n \in DOMAIN mt : mt[n].kind = "event"}
DeferredCatches(mt) == {n \in DOMAIN mt : mt[n].kind = "catch" /\ mt[n].id = 0}

\* the bounds of the model, on the state a handler leaves behind
Bounded(w) ==
  /\ Len(w.calls) <= MaxId
  /\ Len(w.objs) <= MaxSessions
  /\ Cardinality(DeferredEvents(w.microtasks)) <= MaxDeferred
  /\ Cardinality(DeferredCatches(w.microtasks)) <= MaxDeferred

Apply(w) ==
  /\ Bounded(w)
  /\ lastId' = w.lastId
  /\ sent' = w.sent
  /\ sessions' = w.sessions
  /\ objs' = w.objs
  /\ calls' = w.calls
  /\ microtasks' = w.microtasks

\* what the awaiting createSession() has seen once a handler has run
Observe(w) ==
  IF cs.state # "awaiting" THEN cs
  ELSE IF cs.call # 0 /\ w.calls[cs.call].state = "resolved"
    THEN [cs EXCEPT !.state = "replied",
                    !.sid = (CHOOSE t \in Range(w.microtasks) :
                               t.kind = "createSessionResume" /\ t.id = cs.call).sid]
  ELSE IF Len(w.objs) > Len(objs)
    THEN [cs EXCEPT !.attached = @ \cup {w.objs[Len(w.objs)].sessionId}]
  ELSE cs

\* a caller invokes session.send(...) or session._sendMayFail(...)
Send(o, waiter) ==
  \E w \in {SessionSend(World, o, FooBar, "", waiter)} :
     /\ Apply(w)
     /\ last' = Last(IF waiter = "mayFail" THEN "sendMayFail" ELSE "send", o, NoFrame,
                     w.outcome, w.id, FooBar)
     /\ UNCHANGED <<closed, hooked, closeRequests, emitted, cs>>

\* a caller invokes session._markAsCrashed()
MarkAsCrashed(o) ==
  /\ objs' = [objs EXCEPT ![o].crashed = TRUE]
  /\ last' = Last("markAsCrashed", o, NoFrame, "", 0, NoMethod)
  /\ UNCHANGED <<lastId, sent, sessions, closed, hooked, closeRequests, calls,
                 microtasks, emitted, cs>>

\* a caller invokes session.detach()
Detach(o) ==
  \E w \in {SessionDetach(World, o)} :
     /\ Apply(w)
     /\ last' = Last("detach", o, NoFrame, w.outcome, w.id, DetachFromTarget)
     /\ UNCHANGED <<closed, hooked, closeRequests, emitted, cs>>

\* a caller invokes connection.createSession(targetInfo), one at a time
CreateSession ==
  /\ cs.state \in {"idle", "resolved", "rejected"}
  /\ \E w \in {SessionSend(World, rootSession, AttachToTarget, "", "createSession")} :
     /\ Apply(w)
     /\ cs' = [NoCreateSession EXCEPT !.state = "awaiting",
                                      !.call = IF w.outcome = "ok" THEN Len(w.calls) ELSE 0]
     /\ last' = Last("createSession", rootSession, NoFrame, w.outcome, w.id, AttachToTarget)
     /\ UNCHANGED <<closed, hooked, closeRequests, emitted>>

\* a caller invokes connection.close()
Close ==
  /\ closeRequests' = CloseRequests(closed, closeRequests)
  /\ closeRequests' <= MaxCloseCalls
  /\ last' = Last("close", 0, NoFrame, IF closeRequests' # closeRequests THEN "requested" ELSE "",
                  0, NoMethod)
  /\ UNCHANGED <<lastId, sent, sessions, objs, closed, hooked, calls, microtasks, emitted, cs>>

\* the transport calls its onmessage hook with one frame
Frame(f) ==
  /\ hooked
  /\ \E w \in {ConnectionOnMessage(World, f)} :
     /\ Apply(w)
     /\ cs' = Observe(w)
     /\ last' = Last("frame", IF w.outcome = "discarded" THEN 0 ELSE Lookup(w.sessions, OrEmpty(f.sessionId)),
                     [Seen(f) EXCEPT !.error = f.error /\ w.outcome = "settled",
                                     !.id = IF w.outcome = "settled" THEN f.id ELSE @],
                     w.outcome, w.id, f.method)
     /\ UNCHANGED <<closed, hooked, closeRequests, emitted>>

\* the transport calls its onclose hook: CRConnection._onClose
TransportClose ==
  /\ hooked
  /\ \E w \in {ConnectionOnClose(World)} :
     /\ Apply(w)
     /\ closed' = TRUE
     /\ hooked' = FALSE
     /\ last' = Last("onClose", 0, NoFrame, w.outcome, 0, NoMethod)
     /\ UNCHANGED <<closeRequests, emitted, cs>>

\* the run loop runs the oldest deferred callback
RunMicrotask ==
  /\ microtasks # <<>>
  /\ LET t == Head(microtasks)
     IN /\ microtasks' = Tail(microtasks)
        /\ emitted' = IF t.kind \in {"SessionDisconnected", "ConnectionDisconnected"}
                        THEN [emitted EXCEPT ![t.obj] = @ + 1]
                        ELSE emitted
        /\ calls' = IF t.kind = "catch" /\ t.id # 0
                      THEN [calls EXCEPT ![t.id].logged = objs[t.obj].connection]
                      ELSE calls
        /\ cs' = IF t.kind = "createSessionResume"
                   THEN [cs EXCEPT !.state = "resolved", !.result = Lookup(sessions, t.sid)]
                 ELSE IF t.kind = "createSessionThrow"
                   THEN [cs EXCEPT !.state = "rejected"]
                 ELSE cs
        /\ last' = Last(t.kind, t.obj, NoFrame,
                        IF t.kind = "catch"
                          THEN (IF objs[t.obj].connection THEN "logged" ELSE "swallowed")
                          ELSE "",
                        t.id, t.method)
  /\ UNCHANGED <<lastId, sent, sessions, objs, closed, hooked, closeRequests>>

\* ... and the peer keeps to lifecycle notifications about sessions other than
\* the root session
FramesPeer == { f \in FramesFlat : f.method \in LifecycleMethods => f.target # "" }

\* ... and sends neither the browser-close acknowledgment, nor an id of 0, nor
\* ordinary events
FramesLean ==
  { f \in FramesFlat : /\ ~(f.hasId /\ f.id \in {0, kBrowserCloseMessageId})
                       /\ f.method # FooBaz }

\* the attach and detach notifications of FramesLean, and its replies without error
FramesNoError == { f \in FramesLean : ~f.error }

\* the frames of FramesLean and FramesPeer, and the replies that name a session
FramesCreate ==
  { f \in FramesA : /\ (f.method = AttachedToTarget => f.sessionId = NoSessionId)
                    /\ (f.method \in LifecycleMethods => f.target # "")
                    /\ ~(f.hasId /\ f.id \in {0, kBrowserCloseMessageId})
                    /\ f.method # FooBaz }

\* A caller's call or a transport callback runs as a task of the run loop.
Task ==
  \/ \E o \in Objects : Send(o, "send")
  \/ \E f \in FramesFlat : Frame(f)
  \/ TransportClose

\* Deferred callbacks run before the next task starts.
Next ==
  \/ microtasks = <<>> /\ Task
  \/ RunMicrotask

Spec == Init /\ [][Next]_vars

\* callers also close the connection
TaskClose ==
  \/ \E o \in Objects : Send(o, "send")
  \/ \E f \in FramesLean \cap FramesPeer : Frame(f)
  \/ TransportClose
  \/ Close

NextClose ==
  \/ microtasks = <<>> /\ TaskClose
  \/ RunMicrotask

SpecClose == Init /\ [][NextClose]_vars

\* callers also mark sessions as crashed
TaskCrash ==
  \/ \E o \in Objects : Send(o, "send")
  \/ \E o \in Objects : MarkAsCrashed(o)
  \/ \E f \in FramesLean \cap FramesPeer : Frame(f)
  \/ TransportClose

NextCrash ==
  \/ microtasks = <<>> /\ TaskCrash
  \/ RunMicrotask

SpecCrash == Init /\ [][NextCrash]_vars

\* callers also create sessions
TaskCreate ==
  \/ \E o \in Objects : Send(o, "send")
  \/ CreateSession
  \/ \E f \in FramesCreate : Frame(f)
  \/ TransportClose

NextCreate ==
  \/ microtasks = <<>> /\ TaskCreate
  \/ RunMicrotask

SpecCreate == Init /\ [][NextCreate]_vars

\* callers send, send without caring for failure, and detach sessions; the
\* peer's replies carry no error
TaskSend ==
  \/ \E o \in Objects : Send(o, "send")
  \/ \E o \in Objects : Send(o, "mayFail")
  \/ \E o \in Objects : Detach(o)
  \/ \E f \in FramesNoError \cap FramesPeer : Frame(f)
  \/ TransportClose

NextSend ==
  \/ microtasks = <<>> /\ TaskSend
  \/ RunMicrotask

SpecSend == Init /\ [][NextSend]_vars

\* callers detach sessions, and the peer names any session, the root session
\* included, in its lifecycle notifications
TaskDetach ==
  \/ \E o \in Objects : Detach(o)
  \/ \E f \in FramesLean : Frame(f)
  \/ TransportClose

NextDetach ==
  \/ microtasks = <<>> /\ TaskDetach
  \/ RunMicrotask

SpecDetach == Init /\ [][NextDetach]_vars

\* the frames of FramesPeer that carry no id
FramesEvent == { f \in FramesPeer : ~f.hasId }

\* The peer delivers events.  The transport may deliver several frames in one
\* task of the run loop, so a frame may be dispatched while deferred callbacks
\* of earlier frames are still queued.
NextEvents ==
  \/ \E f \in FramesEvent : Frame(f)
  \/ TransportClose
  \/ RunMicrotask

SpecEvents == Init /\ [][NextEvents]_vars

\* the run loop always gets to run a queued deferred callback
SpecEventsFair == SpecEvents /\ WF_vars(RunMicrotask)

\* callers send without caring for failure and mark attached sessions as crashed
TaskMayFail ==
  \/ \E o \in Objects : Send(o, "mayFail")
  \/ \E o \in Objects \ {rootSession} : MarkAsCrashed(o)
  \/ \E f \in FramesLean \cap FramesPeer : Frame(f)
  \/ TransportClose

NextMayFail ==
  \/ microtasks = <<>> /\ TaskMayFail
  \/ RunMicrotask

SpecMayFail == Init /\ [][NextMayFail]_vars

\* ... and the run loop always gets to run a queued deferred callback
SpecMayFailFair == SpecMayFail /\ WF_vars(RunMicrotask)

\* callers send and mark closed sessions as crashed, and the peer attaches and
\* detaches sessions under any id, the root session's included
TaskTerminal ==
  \/ \E o \in Objects : Send(o, "send")
  \/ \E o \in Objects : ~objs[o].connection /\ MarkAsCrashed(o)
  \/ \E f \in FramesNoError : Frame(f)
  \/ TransportClose

NextTerminal ==
  \/ microtasks = <<>> /\ TaskTerminal
  \/ RunMicrotask

SpecTerminal == Init /\ [][NextTerminal]_vars

\* Callers send from deferred callbacks of their own and the transport may
\* deliver several frames in one task, so sends, frames and the transport's
\* close may all run while deferred callbacks are still queued.  The peer's
\* replies carry no error.
NextDisconnect ==
  \/ \E o \in Objects : Send(o, "send")
  \/ \E f \in FramesNoError \cap FramesPeer : Frame(f)
  \/ TransportClose
  \/ RunMicrotask

SpecDisconnect == Init /\ [][NextDisconnect]_vars

\* ... and the run loop always gets to run a queued deferred callback
SpecDisconnectFair == SpecDisconnect /\ WF_vars(RunMicrotask)

\* the attach and detach notifications of FramesLean
FramesLifecycle == { f \in FramesLean : ~f.hasId }

\* The peer attaches and detaches sessions under any id, any number of times,
\* and the transport closes; frames may be dispatched while deferred
\* callbacks are still queued.
NextLifecycle ==
  \/ \E f \in FramesLifecycle : Frame(f)
  \/ TransportClose
  \/ RunMicrotask

SpecLifecycle == Init /\ [][NextLifecycle]_vars

\* ------------------------------------------------------------------ claims
Pending(k) == calls[k].state = "pending"
Live(o) == objs[o].connection
CallsOf(o) == {k \in DOMAIN calls : calls[k].owner = o}

\* C1: the ids _rawSend hands out are strictly increasing in the order of the
\* sends, whichever sessions send, so no two pending calls share an id.
C1_IdsStrictlyIncreasing ==
  /\ \A j, k \in DOMAIN sent : j < k => sent[j].id < sent[k].id
  /\ \A j, k \in DOMAIN calls : (j # k /\ Pending(j) /\ Pending(k)) => calls[j].id # calls[k].id
  /\ \A k \in DOMAIN calls : calls[k].id = sent[k].id /\ calls[k].id <= lastId

\* two calls pending at once, in two different sessions
C1_Witness ==
  \E j, k \in DOMAIN calls :
    /\ Pending(j) /\ Pending(k)
    /\ objs[calls[j].owner].sessionId # objs[calls[k].owner].sessionId

\* C2, in every state: no call is settled twice, a call is pending exactly while
\* it sits in the table of its live session, and a closed session's table is empty.
C2_State ==
  /\ \A k \in DOMAIN calls :
       /\ calls[k].settles <= 1
       /\ Pending(k) <=> calls[k].settles = 0
       /\ Pending(k) => Live(calls[k].owner) /\ k \in Values(objs[calls[k].owner].callbacks)
  /\ \A o \in Objects : ~Live(o) => objs[o].callbacks = {}

\* C2, in every step that closes a session: each call pending in it is rejected
\* with 'Target closed' by that step.
C2_Step ==
  \A o \in Objects :
    (Live(o) /\ ~Live(o)') =>
       \A k \in Values(objs[o].callbacks) :
         /\ calls'[k].state = "rejected"
         /\ calls'[k].error = TargetClosed
         /\ calls'[k].settles = 1

\* C2: closing a session rejects each of its pending calls exactly once and
\* empties its table, and no call is settled a second time afterwards.
C2_ClosedSessionSettlesOnce == []C2_State /\ [][C2_Step]_vars

\* a closed session that had a pending call rejected by the close, and another
\* of its calls settled by a reply before
C2_Witness ==
  \E o \in Objects :
    /\ ~Live(o)
    /\ \E k \in CallsOf(o) : calls[k].error = TargetClosed
    /\ \E k \in CallsOf(o) : calls[k].state = "resolved"

\* C3: once _onClose has run, no call of any session is left pending and no
\* session id is registered.
C3_NoPendingAfterClose ==
  last.op = "onClose" =>
    /\ sessions = <<>>
    /\ \A k \in DOMAIN calls : ~Pending(k)

\* C4: while the connection is not closed, the registry maps "" to the root
\* session of the constructor, which still has its connection.
C4_RootAlwaysRegistered ==
  ~closed => (Lookup(sessions, "") = rootSession /\ Live(rootSession))

\* C5: every live session is the registry's entry for its id (so at most one
\* per id is live), and every registered session is live.
C5_LiveIffRegistered ==
  /\ \A o \in Objects : Live(o) => Lookup(sessions, objs[o].sessionId) = o
  /\ \A n \in DOMAIN sessions : Live(sessions[n][2])

\* C6 as claimed: a frame with an id other than the sentinel either settles a
\* call pending in the session it addresses or fails the assertion.
C6_UnmatchedReplyAsserts ==
  (last.op = "frame" /\ last.frame.hasId /\ last.frame.id # kBrowserCloseMessageId) =>
     \/ last.outcome = "asserted"
     \/ last.outcome = "settled" /\ calls[last.id].owner = last.obj

\* C6 as amended: such a frame, when its id is not 0 and the session it
\* addresses is registered, settles the call pending under that id in that
\* session and no other call, or fails the assertion and settles nothing; when
\* the session is not registered the frame is dropped and settles nothing.
C6_ReplyStep ==
  (last'.op = "frame" /\ last'.frame.hasId /\ last'.frame.id # kBrowserCloseMessageId) =>
     /\ (last'.obj # 0 /\ last'.frame.id # 0) => last'.outcome \in {"asserted", "settled"}
     /\ last'.obj = 0 => last'.outcome = "dropped"
     /\ last'.outcome = "settled" =>
          /\ last'.id \in Values(objs[last'.obj].callbacks)
          /\ \A k \in DOMAIN calls : k # last'.id => calls'[k] = calls[k]
     /\ last'.outcome # "settled" => calls' = calls

C6_RegisteredUnmatchedReplyAsserts == [][C6_ReplyStep]_vars

\* the assertion failed on a reply while a call was pending in another session
C6_Witness ==
  /\ last.op = "frame" /\ last.outcome = "asserted"
  /\ \E k \in DOMAIN calls : Pending(k) /\ calls[k].owner # last.obj

\* C7: a frame whose id is the sentinel changes nothing, whatever else it carries.
C7_BrowserCloseDiscarded ==
  [][(last'.op = "frame" /\ last'.frame.hasId /\ last'.frame.id = kBrowserCloseMessageId) =>
       /\ last'.outcome = "discarded"
       /\ UNCHANGED <<lastId, sent, sessions, objs, closed, hooked, closeRequests, calls,
                      microtasks, emitted, cs>>]_vars

\* a sentinel frame that names a registered session in a detach notification
\* was dispatched while that session had a pending call
C7_Witness ==
  /\ last.op = "frame" /\ last.frame.id = kBrowserCloseMessageId
  /\ last.frame.method = DetachedFromTarget
  /\ \E k \in DOMAIN calls : Pending(k) /\ objs[calls[k].owner].sessionId = "A"

\* C8: a createSession() that saw the attach notification for S no later than
\* the reply {sessionId: S} resolves to a Session, the one with session id S.
C8_CreateSessionResolvesToSession ==
  (cs.state = "resolved" /\ cs.sid \in cs.attached) =>
     (cs.result # 0 /\ objs[cs.result].sessionId = cs.sid)

\* C9 as claimed: transport.close() is called at most once.
C9_CloseRequestedAtMostOnce == closeRequests <= 1

\* C9 as amended: transport.close() is never called once _closed is set.
C9_NoCloseRequestOnceClosed == [][closed => closeRequests' = closeRequests]_vars

\* close() was called on a closed connection that had been asked to close before
C9_Witness ==
  closed /\ last.op = "close" /\ last.outcome = "" /\ closeRequests >= 1

\* what a send() that fails leaves alone: the counter, the transport, the tables
SendDidNothing == UNCHANGED <<lastId, sent, sessions, objs, calls, microtasks>>

\* C10 as claimed: send on a session without its connection fails with
\* 'Session closed'.
C10_ClosedSessionSendFailsClosed ==
  (last.op = "send" /\ ~Live(last.obj)) => last.outcome = SessionClosed

\* C10 as amended: send on a session without its connection fails before any
\* transport interaction, with 'Target crashed' when the session is crashed and
\* with 'Session closed' otherwise.
C10_ClosedSessionSendFails ==
  [][(last'.op = "send" /\ ~Live(last'.obj)) =>
       /\ last'.outcome = IF objs[last'.obj].crashed THEN TargetCrashed ELSE SessionClosed
       /\ last'.id = 0
       /\ SendDidNothing]_vars

\* a send failed with 'Session closed' on a session closed while it had a call
C10_Witness ==
  /\ last.op = "send" /\ last.outcome = SessionClosed /\ ~Live(last.obj)
  /\ \E k \in CallsOf(last.obj) : calls[k].error = TargetClosed

\* C11: detach() on a session without its connection, or on a live session whose
\* root session id is not registered, fails with the matching error, allocates
\* no id and sends nothing.
C11_DetachFailsWithoutSend ==
  [][(last'.op = "detach" /\ (~Live(last'.obj)
                               \/ Lookup(sessions, objs[last'.obj].rootSessionId) = 0)) =>
       /\ last'.outcome = IF ~Live(last'.obj) THEN AlreadyDetached ELSE RootSessionClosed
       /\ last'.id = 0
       /\ SendDidNothing]_vars

\* detach() failed on a live session whose root session had left the registry
C11_Witness ==
  /\ last.op = "detach" /\ last.outcome = RootSessionClosed
  /\ Live(last.obj)
  /\ Lookup(sessions, objs[last.obj].rootSessionId) = 0

\* C12, in every step: the crashed flag stays set; a send on a crashed session
\* fails with 'Target crashed' and touches nothing; markAsCrashed changes the
\* flag only; and a call of a crashed session stops being pending only when
\* a reply settles it or when the close of its session rejects it.
C12_Step ==
  /\ \A o \in Objects : objs[o].crashed => objs'[o].crashed
  /\ (last'.op = "send" /\ objs[last'.obj].crashed) =>
        /\ last'.outcome = TargetCrashed
        /\ last'.id = 0
        /\ SendDidNothing
  /\ last'.op = "markAsCrashed" =>
        /\ objs' = [objs EXCEPT ![last'.obj].crashed = TRUE]
        /\ UNCHANGED <<lastId, sent, sessions, calls, microtasks>>
  /\ \A k \in DOMAIN calls :
        (objs[calls[k].owner].crashed /\ Pending(k) /\ calls'[k].state # "pending") =>
           \/ /\ last'.op = "frame" /\ last'.outcome = "settled" /\ last'.id = k
              /\ calls'[k].error \in {"", ProtocolError}
           \/ /\ calls'[k].state = "rejected" /\ calls'[k].error = TargetClosed
              /\ ~objs'[calls[k].owner].connection

\* C12: markAsCrashed is one-way, later sends fail fast, and the calls pending
\* at that moment are left to their reply or to the close of the session.
C12_CrashedSessionFailsFast == [][C12_Step]_vars

\* a reply resolved a call of a session that had been marked as crashed while
\* the call was pending
C12_Witness ==
  /\ last.op = "frame" /\ last.outcome = "settled"
  /\ objs[last.obj].crashed
  /\ calls[last.id].owner = last.obj
  /\ calls[last.id].state = "resolved"

EventsQueued(mt) == Cardinality(DeferredEvents(mt))
EventOf(o, m) == Microtask("event", o, 0, m, NoSessionId)

\* C13, in every step: the dispatch of a frame without id that reaches a
\* registered session queues one emission of its method for that session and
\* runs none; that is the only way an emission gets queued; and an emission
\* runs as a deferred callback of its own, taking its entry off the queue.
C13_Step ==
  /\ (last'.op = "frame" /\ ~last'.frame.hasId /\ last'.obj # 0) =>
        /\ last'.outcome = "event"
        /\ EventsQueued(microtasks') = EventsQueued(microtasks) + 1
        /\ microtasks'[Len(microtasks')] = EventOf(last'.obj, last'.method)
        /\ SubSeq(microtasks', 1, Len(microtasks)) = microtasks
  /\ EventsQueued(microtasks') > EventsQueued(microtasks) =>
        (last'.op = "frame" /\ TruthyId(last'.frame) = FALSE /\ last'.obj # 0)
  /\ last'.op = "event" =>
        /\ microtasks # <<>>
        /\ Head(microtasks) = EventOf(last'.obj, last'.method)
        /\ microtasks' = Tail(microtasks)
  /\ EventsQueued(microtasks') < EventsQueued(microtasks) =>
        (last'.op = "event" /\ EventsQueued(microtasks') = EventsQueued(microtasks) - 1)

\* the dispatch of an event for session object o with method m, and its emission
C13_Dispatched(o, m) ==
  last.op = "frame" /\ last.outcome = "event" /\ last.obj = o /\ last.method = m
C13_Emitted(o, m) ==
  last.op = "event" /\ last.obj = o /\ last.method = m

\* C13: a frame without id forwarded to a registered session is emitted to that
\* session exactly once, with its method, and only after its dispatch is over.
C13_EventEmittedOnceDeferred ==
  /\ [][C13_Step]_vars
  /\ \A o \in 1..MaxSessions, m \in LifecycleMethods \cup {FooBaz} :
        C13_Dispatched(o, m) ~> C13_Emitted(o, m)

\* an event of session "A" was emitted while a later frame's emission was queued
C13_Witness ==
  /\ last.op = "event" /\ last.method = FooBaz
  /\ objs[last.obj].sessionId = "A"
  /\ EventsQueued(microtasks) > 0

CatchOf(o, k) == Microtask("catch", o, k, NoMethod, NoSessionId)
CatchQueued(mt, o, k) == \E n \in DOMAIN mt : mt[n] = CatchOf(o, k)

\* C14 as claimed: every failure of a _sendMayFail is logged.
C14_MayFailFailureLogged ==
  last.op = "catch" => last.outcome = "logged"

\* C14 as amended, in every step: a _sendMayFail whose send throws, and the
\* rejection of a call made by _sendMayFail, queue the catch handler; the
\* handler logs exactly when its session still has its connection, and
\* nothing else happens to the failure.
C14_Step ==
  /\ (last'.op = "sendMayFail" /\ last'.outcome # "ok") =>
        /\ last'.outcome \in {TargetCrashed, SessionClosed}
        /\ microtasks' = microtasks \o << CatchOf(last'.obj, 0) >>
  /\ \A k \in DOMAIN calls :
        (calls[k].waiter = "mayFail" /\ Pending(k) /\ calls'[k].state = "rejected") =>
           /\ calls'[k].error \in {ProtocolError, TargetClosed}
           /\ CatchQueued(microtasks', calls[k].owner, k)
           /\ ~CatchQueued(microtasks, calls[k].owner, k)
  /\ last'.op = "catch" =>
        /\ microtasks # <<>>
        /\ Head(microtasks) = CatchOf(last'.obj, last'.id)
        /\ microtasks' = Tail(microtasks)
        /\ last'.outcome = IF Live(last'.obj) THEN "logged" ELSE "swallowed"
        /\ last'.id # 0 => /\ calls[last'.id].state = "rejected"
                           /\ calls'[last'.id].logged = Live(last'.obj)
  /\ \A o \in Objects, k \in 0..MaxId :
        (CatchQueued(microtasks, o, k) /\ ~CatchQueued(microtasks', o, k)) =>
           (last'.op = "catch" /\ last'.obj = o /\ last'.id = k)

\* C14 as amended: a failed _sendMayFail always ends in its catch handler,
\* which fulfills the returned promise with no value; the failure is logged
\* when the session still has its connection (crashed session, error reply)
\* and dropped without a log when it has not (session closed).
C14_MayFailFulfillsLogsIfConnected ==
  /\ [][C14_Step]_vars
  /\ (microtasks # <<>>) ~> (microtasks = <<>>)

\* the catch handler of a _sendMayFail ran for a call that was rejected by the
\* close of its session, and logged nothing
C14_Witness ==
  /\ last.op = "catch" /\ last.outcome = "swallowed"
  /\ last.id # 0
  /\ calls[last.id].error = TargetClosed

\* C15, in every state: a session without its connection has an empty table,
\* none of its calls is pending, and the registry does not hold it.
C15_State ==
  \A o \in Objects :
    ~Live(o) =>
       /\ objs[o].callbacks = {}
       /\ \A k \in CallsOf(o) : ~Pending(k)
       /\ \A n \in DOMAIN sessions : sessions[n][2] # o

\* C15, in every step: a session without its connection stays without it, and
\* a send on it fails and touches nothing.
C15_Step ==
  /\ \A o \in Objects : ~Live(o) => ~objs'[o].connection
  /\ (last'.op = "send" /\ ~Live(last'.obj)) =>
        /\ last'.outcome \in {TargetCrashed, SessionClosed}
        /\ last'.id = 0
        /\ SendDidNothing

\* C15: Closed is terminal for a Session object: no operation gives it its
\* connection back, its table stays empty and every send on it fails.
C15_ClosedIsTerminal == []C15_State /\ [][C15_Step]_vars

\* a send failed on a closed session whose session id has been attached again
\* and belongs to a new, live session
C15_Witness ==
  /\ last.op = "send" /\ ~Live(last.obj) /\ last.outcome = SessionClosed
  /\ \E p \in Objects :
       /\ p # last.obj /\ Live(p)
       /\ objs[p].sessionId = objs[last.obj].sessionId
       /\ Lookup(sessions, objs[p].sessionId) = p

DisconnectedOf(o) == Microtask("SessionDisconnected", o, 0, NoMethod, NoSessionId)

\* C16, in every step that dispatches a detach notification: the registered
\* session of the target id is closed, its pending calls are rejected, and its
\* id leaves the registry; the frame is then emitted as an event to the session
\* registered under the outer sessionId, if any is still registered; every
\* other session, registry entry and call is left as it was.
C16_Step ==
  (last'.op = "frame" /\ ~last'.frame.hasId /\ last'.frame.method = DetachedFromTarget) =>
    LET t == last'.frame.target
        o == Lookup(sessions, t)
        p == Lookup(Unregister(sessions, t), OrEmpty(last'.frame.sessionId))
    IN /\ sessions' = Unregister(sessions, t)
       /\ o # 0 =>
            /\ ~objs'[o].connection
            /\ objs'[o].callbacks = {}
            /\ \A k \in Values(objs[o].callbacks) :
                 calls'[k].state = "rejected" /\ calls'[k].error = TargetClosed
            /\ \E n \in DOMAIN microtasks' : microtasks'[n] = DisconnectedOf(o)
       /\ last'.obj = p
       /\ p # 0 =>
            /\ last'.outcome = "event"
            /\ microtasks'[Len(microtasks')] = EventOf(p, DetachedFromTarget)
       /\ p = 0 =>
            /\ last'.outcome = "dropped"
            /\ EventsQueued(microtasks') = EventsQueued(microtasks)
       /\ \A q \in Objects \ {o} : objs'[q] = objs[q]
       /\ \A k \in DOMAIN calls :
            (o = 0 \/ k \notin Values(objs[o].callbacks)) => calls'[k] = calls[k]
       /\ UNCHANGED <<lastId, sent>>

\* C16: one detach notification both tears down the session it names and is
\* delivered as an event to the session of its outer sessionId.
C16_DetachNotificationDualEffect == [][C16_Step]_vars

\* a detach notification closed a session other than the root with a pending
\* call, and was queued as an event for the root session, which kept its own
\* pending call
C16_Witness ==
  /\ last.op = "frame" /\ last.frame.method = DetachedFromTarget /\ last.outcome = "event"
  /\ last.obj = rootSession
  /\ \E o \in Objects \ {rootSession} :
       /\ \E n \in DOMAIN microtasks : microtasks[n] = DisconnectedOf(o)
       /\ \E k \in CallsOf(o) : calls[k].error = TargetClosed
  /\ \E k \in CallsOf(rootSession) : Pending(k)

ConnectionDisconnected == Microtask("ConnectionDisconnected", 0, 0, NoMethod, NoSessionId)

\* C17, in every state: the connection has emitted Disconnected at most once,
\* and only after it was closed; a closed connection has an empty registry.
C17_State ==
  /\ emitted[0] <= 1
  /\ emitted[0] = 1 => closed
  /\ closed => sessions = <<>>

\* C17, in every step: the transport-close callback sets the closed flag,
\* closes every registered session, rejects their pending calls, empties the
\* registry and queues the emission without running it; the emission runs as
\* a deferred callback of its own, once; and in between no session gets its
\* connection back and no call becomes pending.
C17_Step ==
  /\ last'.op = "onClose" =>
        /\ ~closed /\ closed'
        /\ sessions' = <<>>
        /\ \A n \in DOMAIN sessions :
             /\ ~objs'[sessions[n][2]].connection
             /\ \A k \in Values(objs[sessions[n][2]].callbacks) :
                  calls'[k].state = "rejected" /\ calls'[k].error = TargetClosed
        /\ emitted' = emitted
        /\ microtasks' # <<>>
        /\ microtasks'[Len(microtasks')] = ConnectionDisconnected
        /\ ~(\E n \in DOMAIN microtasks : microtasks[n] = ConnectionDisconnected)
  /\ emitted'[0] # emitted[0] =>
        /\ last'.op = "ConnectionDisconnected"
        /\ Head(microtasks) = ConnectionDisconnected
        /\ microtasks' = Tail(microtasks)
        /\ closed /\ sessions = <<>>
        /\ emitted[0] = 0 /\ emitted'[0] = 1
  /\ closed =>
        /\ closed'
        /\ \A o \in Objects : ~Live(o) => ~objs'[o].connection
        /\ \A k \in DOMAIN calls : ~Pending(k) => calls'[k] = calls[k]

\* C17: after transport closure the connection emits Disconnected exactly
\* once, in a deferred callback, when the closed flag is set, the registry is
\* empty and the registered sessions are closed with their calls rejected.
C17_DisconnectedOnceDeferred ==
  /\ []C17_State
  /\ [][C17_Step]_vars
  /\ closed ~> (emitted[0] = 1)

\* the connection's Disconnected was emitted when every session was closed and
\* a call of session "A" had been rejected with 'Target closed'
C17_Witness ==
  /\ last.op = "ConnectionDisconnected" /\ emitted[0] = 1
  /\ \E k \in DOMAIN calls : calls[k].error = TargetClosed /\ objs[calls[k].owner].sessionId = "A"
  /\ \A o \in Objects : ~Live(o)

\* C18, in every step in which a reply settles a call: the call is the one
\* pending under the reply's id in the session the reply reached, it is
\* rejected when the reply carries an error and resolved otherwise, it leaves
\* the table, and every other call and table entry stays as it was.
C18_Step ==
  (last'.op = "frame" /\ last'.outcome = "settled") =>
    LET k == last'.id
        o == last'.obj
    IN /\ k \in DOMAIN calls /\ Pending(k)
       /\ calls[k].owner = o
       /\ calls[k].id = last'.frame.id
       /\ <<calls[k].id, k>> \in objs[o].callbacks
       /\ calls'[k].state = IF last'.frame.error THEN "rejected" ELSE "resolved"
       /\ calls'[k].error = IF last'.frame.error THEN ProtocolError ELSE ""
       /\ calls'[k].settles = 1
       /\ \A j \in DOMAIN calls : j # k => calls'[j] = calls[j]
       /\ objs'[o].callbacks = objs[o].callbacks \ {<<calls[k].id, k>>}
       /\ \A q \in Objects : q # o => objs'[q] = objs[q]

\* C18: replies settle calls in the order they are dispatched, each reply the
\* call of its id and no other, whatever the order the calls were issued in.
C18_RepliesSettleInPeerOrder == [][C18_Step]_vars

\* a reply settled a call while a call issued earlier on the same session was
\* still pending
C18_Witness ==
  /\ last.op = "frame" /\ last.outcome = "settled"
  /\ \E j \in CallsOf(last.obj) : j < last.id /\ Pending(j)

\* what every successful detach() does: it allocates one id and sends one
\* Target.detachFromTarget naming the session on the session registered under
\* its root session id, whose table gets the new call; the registry, the
\* session's connection and every other session are left alone
DetachOnlySends(o, root) ==
  /\ root # 0
  /\ lastId' = lastId + 1
  /\ sent' = Append(sent, Request(lastId', objs[root].sessionId, DetachFromTarget,
                                  objs[o].sessionId))
  /\ calls' = Append(calls, NewCall(root, lastId', "detach"))
  /\ objs'[root].callbacks = objs[root].callbacks \cup {<<lastId', Len(calls')>>}
  /\ sessions' = sessions
  /\ objs'[o].connection = objs[o].connection
  /\ \A q \in Objects : q # root => objs'[q] = objs[q]
  /\ microtasks' = microtasks

\* C19 as claimed: a successful detach() leaves the pending-call table of the
\* session it is called on unchanged.
C19_DetachLeavesOwnTable ==
  [][(last'.op = "detach" /\ last'.outcome = "ok") =>
       /\ DetachOnlySends(last'.obj, Lookup(sessions, objs[last'.obj].rootSessionId))
       /\ objs'[last'.obj].callbacks = objs[last'.obj].callbacks]_vars

\* C19 as amended: a successful detach() only sends the command on the root
\* session and adds the call to the root session's table; the table of the
\* session it is called on is unchanged unless that session is its own root
\* session.
C19_DetachOnlySends ==
  [][(last'.op = "detach" /\ last'.outcome = "ok") =>
       LET o == last'.obj
           root == Lookup(sessions, objs[o].rootSessionId)
       IN /\ DetachOnlySends(o, root)
          /\ root # o => objs'[o].callbacks = objs[o].callbacks
          /\ root = o => objs'[o].callbacks # objs[o].callbacks]_vars

\* detach() succeeded on a session other than the root session, which is still
\* registered and live, with the command pending on the root session
C19_Witness ==
  /\ last.op = "detach" /\ last.outcome = "ok"
  /\ last.obj # rootSession
  /\ Live(last.obj) /\ Lookup(sessions, objs[last.obj].sessionId) = last.obj
  /\ Pending(Len(calls)) /\ calls[Len(calls)].owner = rootSession
  /\ sent[Len(sent)].target = objs[last.obj].sessionId

DisconnectedQueued(o) ==
  Cardinality({n \in DOMAIN microtasks : microtasks[n] = DisconnectedOf(o)})

\* C20: each Session object is closed at most once: the Disconnected emissions
\* it has made or has queued are none while it has its connection and exactly
\* one once it has lost it.
C20_ClosedAtMostOnce ==
  \A o \in Objects :
    emitted[o] + DisconnectedQueued(o) = IF Live(o) THEN 0 ELSE 1

\* a detach notification arrived for the id of a session that an earlier
\* detach notification had closed and that had emitted its Disconnected
C20_Witness ==
  /\ last.op = "frame" /\ last.frame.method = DetachedFromTarget
  /\ Lookup(sessions, last.frame.target) = 0
  /\ \E o \in Objects :
       /\ objs[o].sessionId = last.frame.target
       /\ ~Live(o) /\ emitted[o] = 1
  /\ ~closed
====